---- MODULE Spec2Model ----
(***************************************************************************)
(* Model of extract_foreign_paragraphs.py: the line cleaner, the paragraph *)
(* validator, the two-column block orderer, the per-page paragraph         *)
(* assembler and the language aggregator.                                  *)
(*                                                                         *)
(* A Python str is a sequence of one-character strings, so that strip,     *)
(* split, lower, count and the regular expressions are computed character  *)
(* by character.  The two non-ASCII dashes of clean_line's character class *)
(* are the character tokens EnDash and EmDash.                             *)
(***************************************************************************)
EXTENDS Integers, Sequences, FiniteSets, TLC

VARIABLES
    pc,                 \* position of the running call
    line,               \* clean_line: its argument
    text,               \* is_valid_paragraph: its argument
    blocks,             \* extract_text_by_columns: page.get_text("blocks")
    column_split,       \* extract_text_by_columns: its threshold
    result,             \* return value of the pure function called
    pdf,                \* the uploaded file: whether fitz can read it, and its pages
    page_num,           \* extract_paragraphs_from_pdf: enumerate(doc, start=1)
    lines,              \* cleaned, non-empty lines of the current page
    line_idx,           \* index in lines of the next line of the for loop
    para_buffer,
    para_num,
    paragraphs,         \* the whole-document list of paragraph dicts
    emitted_by,         \* history: for each paragraph, "close" or "flush"
    lang_results,
    major_language,
    foreign_paragraphs,
    fault               \* the exception that ended the run, or NoFault

pure_vars == <<line, text, blocks, column_split, result>>
extract_vars == <<page_num, lines, line_idx, para_buffer, para_num, paragraphs, emitted_by>>
lang_vars == <<lang_results, major_language, foreign_paragraphs>>
vars == <<pc, line, text, blocks, column_split, result, pdf, page_num, lines,
          line_idx, para_buffer, para_num, paragraphs, emitted_by, lang_results,
          major_language, foreign_paragraphs, fault>>

----------------------------------------------------------------------------
(* Characters *)

LowerLetters == <<"a", "b", "c", "d", "e", "f", "g", "h", "i", "j", "k", "l", "m",
                  "n", "o", "p", "q", "r", "s", "t", "u", "v", "w", "x", "y", "z">>
UpperLetters == <<"A", "B", "C", "D", "E", "F", "G", "H", "I", "J", "K", "L", "M",
                  "N", "O", "P", "Q", "R", "S", "T", "U", "V", "W", "X", "Y", "Z">>
Digits == {"0", "1", "2", "3", "4", "5", "6", "7", "8", "9"}
Whitespace == {" ", "\t", "\n"}
EnDash == "<en-dash>"
EmDash == "<em-dash>"

Range(s) == {s[i] : i \in DOMAIN s}
SetMin(S) == CHOOSE x \in S : \A y \in S : x <= y
SetMax(S) == CHOOSE x \in S : \A y \in S : y <= x

\* \w of Python's re on str: letters, digits and the underscore
WordChars == Range(LowerLetters) \cup Range(UpperLetters) \cup Digits \cup {"_"}
\* [-<en dash><em dash>_\s\d.] of clean_line
SeparatorChars == {"-", EnDash, EmDash, "_", "."} \cup Whitespace \cup Digits
\* [-\d] of is_valid_paragraph's code shape
DashDigitChars == {"-"} \cup Digits
\* ['.', ':', ';', '!', '?'] of is_valid_paragraph
PunctuationChars == {".", ":", ";", "!", "?"}
\* [.?!:;] of the closing test
SentenceEndChars == {".", "?", "!", ":", ";"}

\* code-point order of the characters used, for comparing (y0, text) tuples
CodePointOrder == <<"\t", "\n", " ", "!", "-", ".", "0", "1", "2", "3", "4", "5",
                    "6", "7", "8", "9", ":", ";", "?">> \o UpperLetters \o <<"_">>
                    \o LowerLetters \o <<EnDash, EmDash>>
ord(c) == CHOOSE i \in DOMAIN CodePointOrder : CodePointOrder[i] = c

----------------------------------------------------------------------------
(* Program constants *)

MinWords == 8
MinDotRun == 4
CodeMinLen == 2
CodeMaxLen == 10
MaxDots == 10
ShortLine == 40
DefaultColumnSplit == 300

----------------------------------------------------------------------------
(* str methods *)

\* the first place from i on, going by step d, that holds no whitespace
RECURSIVE skip_space(_, _, _)
skip_space(s, i, d) ==
    IF i \in DOMAIN s /\ s[i] \in Whitespace THEN skip_space(s, i + d, d) ELSE i

\* str.strip(): without leading and trailing whitespace
strip(s) == SubSeq(s, skip_space(s, 1, 1), skip_space(s, Len(s), -1))

\* the words of s from place i on
RECURSIVE split_from(_, _)
split_from(s, i) ==
    LET starts == {j \in i..Len(s) : s[j] \notin Whitespace}
    IN  IF starts = {} THEN <<>>
        ELSE LET a == SetMin(starts)
                 stops == {j \in a..Len(s) : s[j] \in Whitespace}
                 b == IF stops = {} THEN Len(s) + 1 ELSE SetMin(stops)
             IN  <<SubSeq(s, a, b - 1)>> \o split_from(s, b)

\* str.split(): the maximal runs of non-whitespace characters
split(s) == split_from(s, 1)

\* the pieces of s from place i on
RECURSIVE split_on_from(_, _, _)
split_on_from(s, sep, i) ==
    LET cuts == {j \in i..Len(s) : s[j] = sep}
    IN  IF cuts = {} THEN <<SubSeq(s, i, Len(s))>>
        ELSE <<SubSeq(s, i, SetMin(cuts) - 1)>> \o split_on_from(s, sep, SetMin(cuts) + 1)

\* str.split(sep) for a one-character sep: every sep cuts, empty pieces kept
split_on(s, sep) == split_on_from(s, sep, 1)

\* sep.join(parts)
RECURSIVE join(_, _)
join(sep, parts) ==
    IF parts = <<>> THEN <<>>
    ELSE IF Len(parts) = 1 THEN parts[1]
    ELSE parts[1] \o sep \o join(sep, Tail(parts))

\* str.count(c) for a one-character c
count(s, c) == Cardinality({i \in DOMAIN s : s[i] = c})

LowerOf == [c \in Range(UpperLetters) |->
                LowerLetters[CHOOSE i \in DOMAIN UpperLetters : UpperLetters[i] = c]]

lower_char(c) == IF c \in DOMAIN LowerOf THEN LowerOf[c] ELSE c

\* str.lower()
lower(s) == [i \in 1..Len(s) |-> lower_char(s[i])]

----------------------------------------------------------------------------
(* Regular expressions *)

\* $ : at the end of the string, or before a newline that ends it
at_end(s, i) == i = Len(s) + 1 \/ (i = Len(s) /\ s[i] = "\n")

\* \b : a word character on exactly one side of position i (between i-1 and i)
word_boundary(s, i) ==
    LET before == i - 1 \in DOMAIN s /\ s[i - 1] \in WordChars
        after == i \in DOMAIN s /\ s[i] \in WordChars
    IN  before # after

literal_at(s, i, lit) ==
    i + Len(lit) - 1 <= Len(s) /\ SubSeq(s, i, i + Len(lit) - 1) = lit

\* re.match(r'^\w{2,10}[-\d]*$', s)
re_match_code(s) ==
    \E k \in CodeMinLen..CodeMaxLen :
        /\ k <= Len(s)
        /\ \A i \in 1..k : s[i] \in WordChars
        /\ \E e \in (k + 1)..(Len(s) + 1) :
              /\ \A i \in (k + 1)..(e - 1) : s[i] \in DashDigitChars
              /\ at_end(s, e)

\* the positions just after a match of part\s*no starting at i
part_no_ends(s, i) ==
    IF literal_at(s, i, <<"p", "a", "r", "t">>)
    THEN {e \in (i + 6)..(Len(s) + 1) :
            /\ literal_at(s, e - 2, <<"n", "o">>)
            /\ \A j \in (i + 4)..(e - 3) : s[j] \in Whitespace}
    ELSE {}

word_ends(s, i, lit) == IF literal_at(s, i, lit) THEN {i + Len(lit)} ELSE {}

\* re.search(r'\b(part\s*no|ref|code|item)\b', s)
re_search_part(s) ==
    \E i \in DOMAIN s :
        /\ s[i] \in {"p", "r", "c", "i"}
        /\ word_boundary(s, i)
        /\ \E e \in part_no_ends(s, i) \cup word_ends(s, i, <<"r", "e", "f">>)
                    \cup word_ends(s, i, <<"c", "o", "d", "e">>)
                    \cup word_ends(s, i, <<"i", "t", "e", "m">>) :
              word_boundary(s, e)

\* re.match(r'^.*\.{4,}.*$', s): . matches any character but a newline
re_match_dotted(s) ==
    \E i \in 1..(Len(s) - MinDotRun + 1) :
        /\ \A j \in i..(i + MinDotRun - 1) : s[j] = "."
        /\ \A j \in 1..(i - 1) : s[j] # "\n"
        /\ \A j \in (i + MinDotRun)..Len(s) : s[j] = "\n" => j = Len(s)

\* re.fullmatch(r'[-<en dash><em dash>_\s\d.]+', s)
re_fullmatch_separator(s) == s # <<>> /\ \A i \in DOMAIN s : s[i] \in SeparatorChars

\* re.search(r'[.?!:;]$', s)
re_search_sentence_end(s) ==
    \E i \in DOMAIN s : s[i] \in SentenceEndChars /\ at_end(s, i + 1)

----------------------------------------------------------------------------
(* Helper functions of the program *)

is_valid_paragraph_strict(t) ==
    /\ Len(split(t)) > MinWords
    /\ \E i \in DOMAIN t : t[i] \in PunctuationChars
    /\ ~re_match_code(strip(t))
    /\ ~re_search_part(lower(t))
    /\ ~re_match_dotted(t)

is_valid_paragraph(t) ==
    LET word_count == Len(split(t))
        has_punctuation == \E i \in DOMAIN t : t[i] \in PunctuationChars
        not_code_like == ~re_match_code(strip(t))
        not_part_number == ~re_search_part(lower(t))
        not_dotted_line == ~re_match_dotted(t)
    IN  /\ word_count >= MinWords
        /\ has_punctuation
        /\ not_code_like
        /\ not_part_number
        /\ not_dotted_line

clean_line_at_least(l) ==
    LET s == strip(l)
    IN  IF s = <<>> \/ count(s, ".") >= MaxDots THEN <<>>
        ELSE IF re_fullmatch_separator(s) THEN <<>>
        ELSE s

clean_line_dot_run(l) ==
    LET s == strip(l)
    IN  IF s = <<>> \/ count(s, ".") > MinDotRun THEN <<>>
        ELSE IF re_fullmatch_separator(s) THEN <<>>
        ELSE s

clean_line(l) ==
    LET s == strip(l)
    IN  IF s = <<>> \/ count(s, ".") > MaxDots THEN <<>>
        ELSE IF re_fullmatch_separator(s) THEN <<>>
        ELSE s

----------------------------------------------------------------------------
(* Bounds of the inputs *)

MaxLineLen == 3         \* clean_line: length of the enumerated lines
MaxDotRun == 12         \* clean_line: periods in the dot-leader lines
MaxWords == 9           \* is_valid_paragraph: filler words of a text

NoResult == "<none>"
NoFault == "<none>"
\* an upload that fitz.open cannot read; the pure-function calls have no upload
Corrupt == [readable |-> FALSE, pages |-> <<>>]

pure_idle ==
    /\ line = <<>> /\ text = <<>> /\ blocks = <<>>
    /\ column_split = DefaultColumnSplit /\ result = NoResult

pipeline_idle ==
    /\ pdf = Corrupt /\ page_num = 0 /\ lines = <<>> /\ line_idx = 0
    /\ para_buffer = <<>> /\ para_num = 0 /\ paragraphs = <<>> /\ emitted_by = <<>>
    /\ lang_results = <<>> /\ major_language = NoResult
    /\ foreign_paragraphs = <<>> /\ fault = NoFault

----------------------------------------------------------------------------
(* clean_line called on one line *)

TocLine == <<"T", "a", "b", "l", "e", " ", "o", "f", " ", "C", "o", "n", "t", "e", "n", "t", "s", ".", ".", ".", ".", ".", ".", ".", " ", "1", "2">>
TocLineLong == <<"T", "a", "b", "l", "e", " ", "o", "f", " ", "C", "o", "n", "t", "e", "n", "t", "s", ".", ".", ".", ".", ".", ".", ".", ".", ".", ".", ".", " ", "1", "2">>

CleanAlphabet == {"a", "1", ".", "-", "_", " ", "\t", EnDash}

Repeat(s, n) == [i \in 1..(n * Len(s)) |-> s[((i - 1) % Len(s)) + 1]]

CleanInputs ==
    UNION {[1..n -> CleanAlphabet] : n \in 0..MaxLineLen}
    \cup {pre \o Repeat(unit, n) \o suf :
            n \in 0..MaxDotRun,
            unit \in {<<".">>, <<"1", ".">>},
            pre \in {<<>>, <<" ", "a", ":">>},
            suf \in {<<>>, <<" ", "1", "2", " ">>}}
    \cup {TocLine, TocLineLong}

InitClean ==
    /\ pc = "clean_line"
    /\ line \in CleanInputs
    /\ text = <<>> /\ blocks = <<>> /\ column_split = DefaultColumnSplit
    /\ result = NoResult
    /\ pipeline_idle

CleanLine ==
    /\ pc = "clean_line"
    /\ result' = clean_line(line)
    /\ pc' = "clean_line_done"
    /\ UNCHANGED <<line, text, blocks, column_split, pdf, extract_vars, lang_vars, fault>>

NextClean == CleanLine

SpecClean == InitClean /\ [][NextClean]_vars

\* the line without its leading and trailing whitespace
Trimmed(s) ==
    LET keep == {i \in DOMAIN s : s[i] \notin Whitespace}
    IN  IF keep = {} THEN <<>> ELSE SubSeq(s, SetMin(keep), SetMax(keep))

Periods(s) == {i \in DOMAIN s : s[i] = "."}

\* the three rejection rules, rule 3 over the character set chars
Rejected(l, chars) ==
    \/ Trimmed(l) = <<>>
    \/ Cardinality(Periods(l)) > MaxDots
    \/ \A i \in DOMAIN Trimmed(l) : Trimmed(l)[i] \in chars

Cleans(chars) ==
    pc = "clean_line_done" =>
        IF Rejected(line, chars) THEN result = <<>>
        ELSE result = Trimmed(line) /\ result # <<>>

DashSpaceDigitPeriod == {"-", EnDash, EmDash, "."} \cup Whitespace \cup Digits

\* C6 as stated: clean_line returns the empty string exactly when the trimmed
\* line is empty, or the line has more than 10 periods, or the trimmed line
\* consists only of dash, space, digit and period characters; otherwise it
\* returns the trimmed line unchanged.
C6_AsStated == Cleans(DashSpaceDigitPeriod)

\* C6, amended: rule 3 also covers the underscore: the trimmed line consists
\* only of dash (hyphen, en dash, em dash), underscore, whitespace, digit and
\* period characters.
C6_CleanLine == Cleans(DashSpaceDigitPeriod \cup {"_"})

\* C6: a line of underscores (and other separator characters) was cleaned away
C6_Witness ==
    /\ pc = "clean_line_done"
    /\ "_" \in Range(line)
    /\ Len(Trimmed(line)) >= 2
    /\ Cardinality(Periods(line)) <= MaxDots
    /\ result = <<>>

\* C7 as stated: clean_line("Table of Contents....... 12") returns the
\* empty string.
C7_AsStated == (pc = "clean_line_done" /\ line = TocLine) => result = <<>>

\* C7, amended: the line as written has 7 periods, which is not more than 10,
\* and it has letters, so clean_line returns it unchanged; the same line with
\* a run of 11 periods is cleaned to the empty string.
C7_TocLine ==
    pc = "clean_line_done" =>
        /\ line = TocLine => result = TocLine
        /\ line = TocLineLong => result = <<>>

\* C7: clean_line has returned for the line of the spec
C7_Witness ==
    /\ pc = "clean_line_done"
    /\ line = TocLine
    /\ Cardinality(Periods(line)) = 7
    /\ result # <<>>

----------------------------------------------------------------------------
(* is_valid_paragraph called on one text *)

EightWords == <<"o", "n", "e", " ", "t", "w", "o", " ", "t", "h", "r", "e", "e", " ", "f", "o", "u", "r", " ", "f", "i", "v", "e", " ", "s", "i", "x", " ", "s", "e", "v", "e", "n", " ", "e", "i", "g", "h", "t", ".">>
SevenWords == <<"o", "n", "e", " ", "t", "w", "o", " ", "t", "h", "r", "e", "e", " ", "f", "o", "u", "r", " ", "f", "i", "v", "e", " ", "s", "i", "x", " ", "s", "e", "v", "e", "n", ".">>

Filler == <<"a", "b">>
Phrases == {<<"p", "a", "r", "t", " ", "n", "o">>,
            <<"p", "a", "r", "t", "n", "o">>,
            <<"p", "a", "r", "t", " ", " ", "n", "o">>,
            <<"p", "a", "r", "t", "\t", "n", "o">>,
            <<"r", "e", "f">>,
            <<"R", "e", "f">>,
            <<"p", "r", "e", "f", "e", "r">>,
            <<"c", "o", "d", "e">>,
            <<"i", "t", "e", "m">>,
            <<"i", "t", "e", "m", "s">>,
            <<"x", ".", ".", ".", ".", "y">>,
            <<"x", ".", ".", ".", "y">>,
            <<"p", "a", "r", "t">>,
            <<"n", "o", " ", "p", "a", "r", "t">>,
            <<"p", "a", "r", "t", "-", "n", "o">>,
            <<"r", "e", "f", "_", "1">>,
            <<"C", "O", "D", "E", ":">>}
ShortTexts == {<<"A", "B", "-", "1", "2", "3", "4">>,
               <<"A", "B", "-", "1", "2", "3", "4", ".">>,
               <<"a">>,
               <<"a", "b">>,
               <<"a", "b", "1", "2">>,
               <<"a", "b", "c", "d", "e", "f", "g", "h", "i", "j", "k">>,
               <<"a", "b", "c", "d", "e", "f", "g", "h", "i", "j", "-", "1", "2">>,
               <<"a", "b", ".">>,
               <<"a", "-", "1">>,
               <<" ", "a", "b", "-", "1", " ">>}
Endings == {<<>>, <<".">>, <<"?">>, <<".", " ">>}

Fillers(k) == [i \in 1..k |-> Filler]

ValidInputs ==
    {join(<<" ">>, Fillers(k)) \o e : k \in 0..MaxWords, e \in Endings}
    \cup {join(<<" ">>, Fillers(f) \o <<p>> \o Fillers(k - f)) \o e :
            k \in 0..MaxWords, f \in {0, 1, MaxWords}, p \in Phrases, e \in Endings}
    \cup ShortTexts
    \cup {EightWords, SevenWords}

InitValid ==
    /\ pc = "is_valid_paragraph"
    /\ text \in ValidInputs
    /\ line = <<>> /\ blocks = <<>> /\ column_split = DefaultColumnSplit
    /\ result = NoResult
    /\ pipeline_idle

IsValidParagraph ==
    /\ pc = "is_valid_paragraph"
    /\ result' = is_valid_paragraph(text)
    /\ pc' = "is_valid_paragraph_done"
    /\ UNCHANGED <<line, text, blocks, column_split, pdf, extract_vars, lang_vars, fault>>

NextValid == IsValidParagraph

SpecValid == InitValid /\ [][NextValid]_vars

\* the number of words: the places where a run of non-whitespace starts
WordStarts(s) ==
    {i \in DOMAIN s : s[i] \notin Whitespace /\ (i = 1 \/ s[i - 1] \in Whitespace)}

HasPunctuation(s) == Range(s) \cap {".", ":", ";", "!", "?"} # {}

\* 2-10 word characters, then an optional dash/digit run, and nothing else
ShortCodeShape(s) ==
    \E k \in 2..10 :
        /\ k <= Len(s)
        /\ Range(SubSeq(s, 1, k)) \subseteq WordChars
        /\ Range(SubSeq(s, k + 1, Len(s))) \subseteq {"-"} \cup Digits

\* s[a..b] stands alone: no word character right before it or right after it
Standalone(s, a, b) ==
    /\ a \in DOMAIN s /\ b \in DOMAIN s
    /\ (a = 1 \/ s[a - 1] \notin WordChars)
    /\ (b = Len(s) \/ s[b + 1] \notin WordChars)

HasWord(s, w) ==
    \E a \in DOMAIN s :
        /\ a + Len(w) - 1 <= Len(s)
        /\ SubSeq(s, a, a + Len(w) - 1) = w
        /\ Standalone(s, a, a + Len(w) - 1)

\* "part" and "no" with any run of whitespace, also none, between them
HasPartNo(s) ==
    \E a \in DOMAIN s : \E b \in (a + 5)..Len(s) :
        /\ SubSeq(s, a, a + 3) = <<"p", "a", "r", "t">>
        /\ SubSeq(s, b - 1, b) = <<"n", "o">>
        /\ Range(SubSeq(s, a + 4, b - 2)) \subseteq Whitespace
        /\ Standalone(s, a, b)

HasDotRun(s) == \E i \in DOMAIN s : \A j \in i..(i + 3) : j \in DOMAIN s /\ s[j] = "."

ForbiddenAsStated(s) ==
    \/ HasWord(s, <<"p", "a", "r", "t", " ", "n", "o">>)
    \/ HasWord(s, <<"r", "e", "f">>)
    \/ HasWord(s, <<"c", "o", "d", "e">>)
    \/ HasWord(s, <<"i", "t", "e", "m">>)

ForbiddenAmended(s) ==
    \/ HasPartNo(s)
    \/ HasWord(s, <<"r", "e", "f">>)
    \/ HasWord(s, <<"c", "o", "d", "e">>)
    \/ HasWord(s, <<"i", "t", "e", "m">>)

FourConditions(s) ==
    /\ Cardinality(WordStarts(s)) >= 8
    /\ HasPunctuation(s)
    /\ ~ShortCodeShape(Trimmed(s))
    /\ ~HasDotRun(s)

EightAndSeven ==
    /\ text = EightWords => result = TRUE
    /\ text = SevenWords => result = FALSE

\* C9 as stated: is_valid_paragraph is true exactly when the word count is at
\* least 8, the text has one of . : ; ! ?, the trimmed text is not of
\* short-code shape, the lowercased text has none of the standalone words
\* "part no", "ref", "code", "item", and the text has no run of 4 periods; an
\* 8-word text ending in a period is accepted and its 7-word cut rejected.
C9_AsStated ==
    pc = "is_valid_paragraph_done" =>
        /\ result = (FourConditions(text) /\ ~ForbiddenAsStated(lower(text)))
        /\ EightAndSeven

\* C9, amended: the forbidden phrase "part no" is "part" followed by any
\* amount of whitespace, including none ("partno", "part  no"), followed by
\* "no"; the rest as stated.
C9_IsValidParagraph ==
    pc = "is_valid_paragraph_done" =>
        /\ result = (FourConditions(text) /\ ~ForbiddenAmended(lower(text)))
        /\ EightAndSeven

\* C9: a text that meets the four other conditions was rejected for a "part no"
\* that is not written with one space
C9_Witness ==
    /\ pc = "is_valid_paragraph_done"
    /\ FourConditions(text)
    /\ HasPartNo(lower(text))
    /\ ~ForbiddenAsStated(lower(text))
    /\ result = FALSE

----------------------------------------------------------------------------
(* extract_text_by_columns called on the blocks of one page *)

\* str < str: lexicographic by code point
RECURSIVE str_less(_, _)
str_less(a, b) ==
    IF b = <<>> THEN FALSE
    ELSE IF a = <<>> THEN TRUE
    ELSE IF Head(a) # Head(b) THEN ord(Head(a)) < ord(Head(b))
    ELSE str_less(Tail(a), Tail(b))

\* (y0, text) < (y0, text): tuples compare element by element
tuple_less(a, b) == a[1] < b[1] \/ (a[1] = b[1] /\ str_less(a[2], b[2]))

\* list.sort() is stable: each element goes after the elements not greater
RECURSIVE sort(_)
sort(s) ==
    IF s = <<>> THEN <<>>
    ELSE LET done == sort(SubSeq(s, 1, Len(s) - 1))
             x == s[Len(s)]
             after == {i \in DOMAIN done : tuple_less(x, done[i])}
             k == IF after = {} THEN Len(done) + 1 ELSE SetMin(after)
         IN  SubSeq(done, 1, k - 1) \o <<x>> \o SubSeq(done, k, Len(done))

in_left_col_inclusive(b, col_split) == b.x0 <= col_split

\* the test that sends a block to left_col
in_left_col(b, col_split) == b.x0 < col_split

\* the (y0, text) tuples appended to left_col (left) or to right_col
column(bs, col_split, left) ==
    LET kept == SelectSeq(bs, LAMBDA b : in_left_col(b, col_split) = left)
    IN  [i \in 1..Len(kept) |-> <<kept[i].y0, kept[i].text>>]

texts_of(col) == [i \in 1..Len(col) |-> col[i][2]]

extract_text_by_columns(bs, col_split) ==
    LET left_col == sort(column(bs, col_split, TRUE))
        right_col == sort(column(bs, col_split, FALSE))
        combined_text == join(<<"\n">>, texts_of(left_col \o right_col))
    IN  combined_text

MaxBlocks == 3          \* blocks of the page

LeftTop == <<"l", "e", "f", "t", " ", "t", "o", "p">>
RightTop == <<"r", "i", "g", "h", "t", " ", "t", "o", "p">>
LeftBottom == <<"l", "e", "f", "t", " ", "b", "o", "t", "t", "o", "m">>

\* a block is (x0, y0, x1, y1, text, ...); the code reads x0, y0 and text
Block(x, y, t) == [x0 |-> x, y0 |-> y, text |-> t]

ExampleBlocks == <<Block(10, 10, LeftTop), Block(320, 10, RightTop), Block(10, 50, LeftBottom)>>

BlockInputs ==
    {Block(10, 10, LeftTop), Block(320, 10, RightTop), Block(10, 50, LeftBottom),
     Block(300, 10, RightTop), Block(10, 10, LeftBottom), Block(320, 50, LeftTop),
     Block(300, 50, LeftBottom), Block(10, 50, LeftTop)}

SplitInputs == {DefaultColumnSplit, 320}

InitColumns ==
    /\ pc = "extract_text_by_columns"
    /\ blocks \in UNION {[1..n -> BlockInputs] : n \in 0..MaxBlocks}
    /\ column_split \in SplitInputs
    /\ line = <<>> /\ text = <<>>
    /\ result = NoResult
    /\ pipeline_idle

ExtractTextByColumns ==
    /\ pc = "extract_text_by_columns"
    /\ result' = extract_text_by_columns(blocks, column_split)
    /\ pc' = "extract_text_by_columns_done"
    /\ UNCHANGED <<line, text, blocks, column_split, pdf, extract_vars, lang_vars, fault>>

NextColumns == ExtractTextByColumns

SpecColumns == InitColumns /\ [][NextColumns]_vars

\* the orders of the blocks: each block exactly once
Orders(n) == {p \in [1..n -> 1..n] : \A i, j \in 1..n : p[i] = p[j] => i = j}

IsLeft(b) == b.x0 < column_split

\* left before right, and ascending y0 within the left and within the right
ReadingOrder(p) ==
    \A i, j \in DOMAIN p :
        i < j =>
            LET a == blocks[p[i]]
                b == blocks[p[j]]
            IN  /\ IsLeft(a) \/ ~IsLeft(b)
                /\ IsLeft(a) = IsLeft(b) => a.y0 <= b.y0

Joined(ts) == IF ts = <<>> THEN <<>> ELSE Tail(join(<<>>, [i \in 1..Len(ts) |-> <<"\n">> \o ts[i]]))

\* C8: extract_text_by_columns outputs every block's text exactly once, joined
\* by a line separator, the blocks with x0 < column_split before those with
\* x0 >= column_split and each of the two groups in ascending order of y0; the
\* three blocks of the example with split 300 give left top, left bottom,
\* right top; no blocks give the empty string.
C8_ReadingOrder ==
    pc = "extract_text_by_columns_done" =>
        /\ \E p \in Orders(Len(blocks)) :
              /\ ReadingOrder(p)
              /\ result = Joined([i \in 1..Len(blocks) |-> blocks[p[i]].text])
        /\ (blocks = ExampleBlocks /\ column_split = 300) =>
              result = LeftTop \o <<"\n">> \o LeftBottom \o <<"\n">> \o RightTop
        /\ blocks = <<>> => result = <<>>

\* C8: the call returned for three blocks given out of reading order, one of
\* them with its left edge on the split
C8_Witness ==
    /\ pc = "extract_text_by_columns_done"
    /\ Len(blocks) = 3
    /\ ~IsLeft(blocks[1]) /\ blocks[1].x0 = column_split
    /\ IsLeft(blocks[2]) /\ IsLeft(blocks[3])
    /\ blocks[3].y0 < blocks[2].y0
    /\ result = blocks[3].text \o <<"\n">> \o blocks[2].text \o <<"\n">> \o blocks[1].text

----------------------------------------------------------------------------
(* The pipeline: analyze_pdf_language_and_save_bytesio on an uploaded file *)

MaxPages == 2           \* pages of the document
MaxLines == 4           \* blocks of the document, over all its pages

\* 40 characters once stripped, ten words, a period inside, none at the end
LongLine == <<" ", " ", "s", "e", "e", " ", "f", "i", "g", ".", " ", "2", " ", "f", "o", "r", " ", "t", "h", "e", " ", "l", "o", "n", "g", " ", "l", "i", "n", "e", " ", "o", "f", " ", "t", "e", "x", "t", " ", "a", "n", "d">>
\* eight words and a period at the end, as a block's text ends: with a newline
Sentence == <<"w", "e", " ", "t", "e", "s", "t", " ", "o", "n", "e", " ", "t", "w", "o", " ", "t", "h", "r", "e", "e", " ", "f", "o", "u", "r", " ", "f", "i", "v", "e", " ", "s", "i", "x", ".", "\n">>
\* a separator line and a part label
Label == <<"-", " ", "1", "2", " ", "-", "\n", "I", "t", "e", "m", " ", "4", "2">>

BlockTexts == {LongLine, Sentence, Label}
Languages == {"en", "fr", "de"}

\* the blocks of a page whose texts are ts, one under the other, left column
PageOf(ts) == [i \in 1..Len(ts) |-> Block(10, 10 * i, ts[i])]

\* the documents of p pages over the block texts ts: cut[k] texts come before page k + 1
Cuts(p, n) == {c \in [1..(p - 1) -> 0..n] : \A i, j \in 1..(p - 1) : i <= j => c[i] <= c[j]}

Cut(ts, p, c) ==
    [k \in 1..p |->
        PageOf(SubSeq(ts, (IF k = 1 THEN 0 ELSE c[k - 1]) + 1, IF k = p THEN Len(ts) ELSE c[k]))]

Documents(texts) ==
    {<<>>} \cup
    {Cut(ts, p, c) : <<ts, p, c>> \in
        {<<ts, p, c>> \in (UNION {[1..n -> texts] : n \in 0..MaxLines})
                           \X (1..MaxPages) \X (UNION {Cuts(p, MaxLines) : p \in 1..MaxPages}) :
            /\ DOMAIN c = 1..(p - 1)
            /\ \A i \in DOMAIN c : c[i] <= Len(ts)}}

Uploads(texts) == {[readable |-> TRUE, pages |-> d] : d \in Documents(texts)} \cup {Corrupt}

Uploaded(texts) ==
    /\ pc = "open"
    /\ pdf \in Uploads(texts)
    /\ pure_idle
    /\ page_num = 0 /\ lines = <<>> /\ line_idx = 0
    /\ para_buffer = <<>> /\ para_num = 0 /\ paragraphs = <<>> /\ emitted_by = <<>>
    /\ lang_results = <<>> /\ major_language = NoResult
    /\ foreign_paragraphs = <<>> /\ fault = NoFault

\* [line for line in (clean_line(line) for line in text.split('\n')) if line]
cleaned_lines(t) ==
    LET raw == split_on(t, "\n")
        cleaned == [i \in 1..Len(raw) |-> clean_line(raw[i])]
    IN  SelectSeq(cleaned, LAMBDA l : l # <<>>)

closes_at_most(l) == re_search_sentence_end(strip(l)) \/ Len(strip(l)) <= ShortLine

\* the closing test of the line just appended
closes(l) == re_search_sentence_end(strip(l)) \/ Len(strip(l)) < ShortLine

close_accepts_any(buf) == buf # <<>>

\* the test of a mid-page close
close_accepts(buf) == is_valid_paragraph(buf)

\* the test of the end-of-page flush
flush_accepts(buf) == is_valid_paragraph(buf)

paragraph_numbered_early(page, num, buf) ==
    [page |-> page, paragraph_number |-> num - 1, text |-> strip(buf),
     word_count |-> Len(split(strip(buf)))]

\* the dict appended to paragraphs; num is para_num after its increment
paragraph(page, num, buf) ==
    [page |-> page, paragraph_number |-> num, text |-> strip(buf),
     word_count |-> Len(split(strip(buf)))]

\* fitz.open raises on a stream that is no PDF
OpenFails ==
    /\ pc = "open"
    /\ ~pdf.readable
    /\ fault' = "input"
    /\ pc' = "raised"
    /\ UNCHANGED <<pure_vars, pdf, extract_vars, lang_vars>>

Open ==
    /\ pc = "open"
    /\ pdf.readable
    /\ paragraphs' = <<>>
    /\ page_num' = 0
    /\ pc' = "page"
    /\ UNCHANGED <<pure_vars, pdf, lines, line_idx, para_buffer, para_num, emitted_by,
                   lang_vars, fault>>

\* the head of the page loop, down to the for loop over the lines
StartPage ==
    /\ pc = "page"
    /\ page_num < Len(pdf.pages)
    /\ page_num' = page_num + 1
    /\ lines' = cleaned_lines(extract_text_by_columns(pdf.pages[page_num + 1], DefaultColumnSplit))
    /\ para_buffer' = <<>>
    /\ para_num' = 0
    /\ line_idx' = 1
    /\ pc' = "line"
    /\ UNCHANGED <<pure_vars, pdf, paragraphs, emitted_by, lang_vars, fault>>

\* one pass of the for loop over the lines
ProcessLine ==
    /\ pc = "line"
    /\ line_idx <= Len(lines)
    /\ LET l == lines[line_idx]
           buf == IF para_buffer # <<>> THEN para_buffer \o <<" ">> \o strip(l) ELSE strip(l)
       IN  IF closes(l)
           THEN /\ IF close_accepts(buf)
                   THEN /\ para_num' = para_num + 1
                        /\ paragraphs' = Append(paragraphs, paragraph(page_num, para_num + 1, buf))
                        /\ emitted_by' = Append(emitted_by, "close")
                   ELSE UNCHANGED <<para_num, paragraphs, emitted_by>>
                /\ para_buffer' = <<>>
           ELSE /\ para_buffer' = buf
                /\ UNCHANGED <<para_num, paragraphs, emitted_by>>
    /\ line_idx' = line_idx + 1
    /\ UNCHANGED <<pc, pure_vars, pdf, page_num, lines, lang_vars, fault>>

\* after the last line: the flush of what the buffer holds
EndPage ==
    /\ pc = "line"
    /\ line_idx > Len(lines)
    /\ IF flush_accepts(para_buffer)
       THEN /\ para_num' = para_num + 1
            /\ paragraphs' = Append(paragraphs, paragraph(page_num, para_num + 1, para_buffer))
            /\ emitted_by' = Append(emitted_by, "flush")
       ELSE UNCHANGED <<para_num, paragraphs, emitted_by>>
    /\ pc' = "page"
    /\ UNCHANGED <<pure_vars, pdf, page_num, lines, line_idx, para_buffer, lang_vars, fault>>

\* return paragraphs; detect_languages starts with no results
ReturnParagraphs ==
    /\ pc = "page"
    /\ page_num = Len(pdf.pages)
    /\ lang_results' = <<>>
    /\ pc' = "detect"
    /\ UNCHANGED <<pure_vars, pdf, extract_vars, major_language, foreign_paragraphs, fault>>

tagged(p, lang) == [language |-> lang] @@ p

\* detect returns a language code for the next paragraph
DetectLanguage ==
    /\ pc = "detect"
    /\ Len(lang_results) < Len(paragraphs)
    /\ \E lang \in Languages :
          /\ paragraphs' = [paragraphs EXCEPT ![Len(lang_results) + 1] = tagged(@, lang)]
          /\ lang_results' = Append(lang_results, lang)
    /\ UNCHANGED <<pc, pure_vars, pdf, page_num, lines, line_idx, para_buffer, para_num,
                   emitted_by, major_language, foreign_paragraphs, fault>>

\* detect raises for the next paragraph: the bare except tags it "unknown"
DetectFails ==
    /\ pc = "detect"
    /\ Len(lang_results) < Len(paragraphs)
    /\ paragraphs' = [paragraphs EXCEPT ![Len(lang_results) + 1] = tagged(@, "unknown")]
    /\ lang_results' = Append(lang_results, "unknown")
    /\ UNCHANGED <<pc, pure_vars, pdf, page_num, lines, line_idx, para_buffer, para_num,
                   emitted_by, major_language, foreign_paragraphs, fault>>

ReturnLanguages ==
    /\ pc = "detect"
    /\ Len(lang_results) = Len(paragraphs)
    /\ pc' = "find"
    /\ UNCHANGED <<pure_vars, pdf, extract_vars, lang_vars, fault>>

\* Counter(tags): the keys in the order of their first occurrence
counter_keys(tags) ==
    LET F[i \in 0..Len(tags)] ==
            IF i = 0 THEN <<>>
            ELSE LET keys == F[i - 1]
                 IN  IF tags[i] \in Range(keys) THEN keys ELSE Append(keys, tags[i])
    IN  F[Len(tags)]

counter_count(tags, k) == Cardinality({i \in DOMAIN tags : tags[i] = k})

most_common_1_last(tags) ==
    LET keys == counter_keys(tags)
        F[i \in 1..Len(keys)] ==
            IF i = 1 THEN keys[1]
            ELSE IF counter_count(tags, keys[i]) >= counter_count(tags, F[i - 1]) THEN keys[i]
            ELSE F[i - 1]
    IN  F[Len(keys)]

\* Counter(tags).most_common(1)[0][0]: max over the items in key order, which
\* keeps the first of the items with the largest count
most_common_1(tags) ==
    LET keys == counter_keys(tags)
        F[i \in 1..Len(keys)] ==
            IF i = 1 THEN keys[1]
            ELSE IF counter_count(tags, keys[i]) > counter_count(tags, F[i - 1]) THEN keys[i]
            ELSE F[i - 1]
    IN  F[Len(keys)]

is_foreign_or_unknown(p, major) == p.language # major

\* the condition of the list comprehension
is_foreign(p, major) == p.language # major /\ p.language # "unknown"

\* most_common(1) of an empty Counter is [], and [][0] raises IndexError
FindForeignFails ==
    /\ pc = "find"
    /\ lang_results = <<>>
    /\ fault' = "IndexError"
    /\ pc' = "raised"
    /\ UNCHANGED <<pure_vars, pdf, extract_vars, lang_vars>>

FindForeign ==
    /\ pc = "find"
    /\ lang_results # <<>>
    /\ major_language' = most_common_1(lang_results)
    /\ foreign_paragraphs' =
          SelectSeq(paragraphs, LAMBDA p : is_foreign(p, most_common_1(lang_results)))
    /\ pc' = "found"
    /\ UNCHANGED <<pure_vars, pdf, extract_vars, lang_results, fault>>

\* the rows of df_foreign and the return of the analysis
ReturnAnalysis ==
    /\ pc = "found"
    /\ result' = <<major_language, foreign_paragraphs>>
    /\ pc' = "done"
    /\ UNCHANGED <<line, text, blocks, column_split, pdf, extract_vars, lang_vars, fault>>

Next ==
    \/ OpenFails \/ Open
    \/ StartPage \/ ProcessLine \/ EndPage \/ ReturnParagraphs
    \/ DetectLanguage \/ DetectFails \/ ReturnLanguages
    \/ FindForeignFails \/ FindForeign \/ ReturnAnalysis

\* the whole analysis of a document of sentences and labels
Init == Uploaded({Sentence, Label})

Spec == Init /\ [][Next]_vars

\* extract_paragraphs_from_pdf alone, up to its return
InitExtract == Uploaded(BlockTexts)

NextExtract ==
    \/ OpenFails \/ Open
    \/ StartPage \/ ProcessLine \/ EndPage \/ ReturnParagraphs

SpecExtract == InitExtract /\ [][NextExtract]_vars

----------------------------------------------------------------------------
(* Claims about the pipeline *)

Extracting == pc \in {"page", "line"}
Returned == pc \in {"found", "done"}

\* C1: every paragraph in the output list satisfies is_valid_paragraph on its
\* text and has a recorded word_count of at least 8, whether a mid-page close
\* or the end-of-page flush emitted it.
C1_EmittedValid ==
    \A i \in DOMAIN paragraphs :
        /\ is_valid_paragraph(paragraphs[i].text)
        /\ paragraphs[i].word_count >= 8

\* C1: the list holds a paragraph emitted by a close and one emitted by a flush
C1_Witness ==
    /\ "close" \in Range(emitted_by)
    /\ "flush" \in Range(emitted_by)
    /\ Len(paragraphs) = Len(emitted_by)

EarlierOnPage(i) == {j \in 1..(i - 1) : paragraphs[j].page = paragraphs[i].page}

\* C2: the paragraph numbers of one page are 1, 2, ..., k in emission order:
\* the first accepted paragraph of a page has number 1, each later one is one
\* more than the one before it on the page, and a rejected candidate takes no
\* number.
C2_Numbering ==
    /\ \A i \in DOMAIN paragraphs :
          paragraphs[i].paragraph_number = Cardinality(EarlierOnPage(i)) + 1
    /\ pc = "line" =>
          para_num = Cardinality({i \in DOMAIN paragraphs : paragraphs[i].page = page_num})

\* C2: page 1 gave paragraphs 1 and 2 around a rejected candidate, and page 2
\* starts again at 1
C2_Witness ==
    /\ Len(paragraphs) >= 3
    /\ paragraphs[1].page = 1 /\ paragraphs[1].paragraph_number = 1
    /\ paragraphs[2].page = 1 /\ paragraphs[2].paragraph_number = 2
    /\ paragraphs[3].page = 2 /\ paragraphs[3].paragraph_number = 1
    /\ \E i \in DOMAIN pdf.pages[1] : pdf.pages[1][i].text = Label

\* the places of the paragraphs that are neither "unknown" nor the major language
ForeignPlaces ==
    {i \in DOMAIN paragraphs : paragraphs[i].language \notin {"unknown", major_language}}

\* C3: the foreign list holds a paragraph if and only if its tag is neither
\* "unknown" nor the returned major language, in the order of the input list.
C3_ForeignList ==
    Returned =>
        /\ Len(foreign_paragraphs) = Cardinality(ForeignPlaces)
        /\ \A i \in ForeignPlaces :
              foreign_paragraphs[Cardinality({j \in ForeignPlaces : j <= i})] = paragraphs[i]
        /\ \A k \in DOMAIN foreign_paragraphs :
              foreign_paragraphs[k].language \notin {"unknown", major_language}

\* C3: two foreign paragraphs were returned from a list that also holds a
\* paragraph of the major language and an "unknown" one
C3_Witness ==
    /\ pc = "done"
    /\ Len(foreign_paragraphs) >= 2
    /\ \E i \in DOMAIN paragraphs : paragraphs[i].language = "unknown"
    /\ \E i \in DOMAIN paragraphs : paragraphs[i].language = major_language

Frequency(t) == Cardinality({i \in DOMAIN lang_results : lang_results[i] = t})
FirstPlace(t) == SetMin({i \in DOMAIN lang_results : lang_results[i] = t})

\* C4: for a non-empty sequence of tags, "unknown" counted like any other,
\* the major language is a tag of maximal frequency, and among the tags of
\* maximal frequency the one whose first occurrence is earliest.
C4_MajorLanguage ==
    Returned =>
        /\ major_language \in Range(lang_results)
        /\ \A t \in Range(lang_results) :
              /\ Frequency(t) <= Frequency(major_language)
              /\ Frequency(t) = Frequency(major_language) =>
                    FirstPlace(major_language) <= FirstPlace(t)

\* C4: a tie at frequency 2 was resolved, "unknown" being one of the tags
C4_Witness ==
    /\ pc = "done"
    /\ Frequency(major_language) = 2
    /\ \E t \in Range(lang_results) : t # major_language /\ Frequency(t) = 2
    /\ "unknown" \in Range(lang_results)

\* C5: the pipeline returns a major language and a foreign list for every
\* readable document, whatever number of paragraphs its pages yield and
\* whatever the classifier does; only an input fault on opening or reading the
\* document aborts a run.
C5_OnlyInputFaults == pc = "raised" => fault = "input"

ClaimCloses(l) == l[Len(l)] \in {".", "?", "!", ":", ";"} \/ Len(l) < 40

\* the closing lines among the first m lines of ls
ClosingPlaces(ls, m) == {j \in 1..m : ClaimCloses(ls[j])}

\* where the candidate that holds line j starts: after the last close before j
RunStart(ls, j) == SetMax({0} \cup ClosingPlaces(ls, j - 1)) + 1

RECURSIVE SpaceJoined(_)
SpaceJoined(ls) ==
    IF ls = <<>> THEN <<>>
    ELSE IF Len(ls) = 1 THEN ls[1]
    ELSE SpaceJoined(SubSeq(ls, 1, Len(ls) - 1)) \o <<" ">> \o ls[Len(ls)]

\* the candidates closed within the first m lines, as joined texts, in order
RECURSIVE Closed(_, _)
Closed(ls, m) ==
    IF m = 0 THEN <<>>
    ELSE IF ClaimCloses(ls[m])
         THEN Append(Closed(ls, m - 1), SpaceJoined(SubSeq(ls, RunStart(ls, m), m)))
         ELSE Closed(ls, m - 1)

\* the open candidate after m lines
OpenRun(ls, m) == SpaceJoined(SubSeq(ls, RunStart(ls, m + 1), m))

\* the candidates of a whole page: the closed ones, then the flushed rest
Candidates(ls) == Closed(ls, Len(ls)) \o <<OpenRun(ls, Len(ls))>>

Accepted(g, cands) ==
    LET ok == SelectSeq(cands, is_valid_paragraph)
    IN  [i \in 1..Len(ok) |-> [page |-> g, text |-> ok[i]]]

PageLines(g) == cleaned_lines(extract_text_by_columns(pdf.pages[g], 300))

RECURSIVE AcceptedUpTo(_)
AcceptedUpTo(g) ==
    IF g = 0 THEN <<>> ELSE AcceptedUpTo(g - 1) \o Accepted(g, Candidates(PageLines(g)))

Emitted == [i \in 1..Len(paragraphs) |-> [page |-> paragraphs[i].page, text |-> paragraphs[i].text]]

\* C10: the candidate is closed exactly when the line just appended ends in
\* one of . ? ! : ; or is shorter than 40 characters; every close empties the
\* buffer, accepted or rejected, and the buffer starts empty on every page.
\* So the buffer is the single-space join of the lines since the last close
\* of the page, and the paragraphs are the accepted ones among the joined
\* runs of lines between closes, page by page: no line is in two paragraphs
\* and no line of a rejected candidate is in a later one.
C10_Assembly ==
    /\ pc = "line" =>
          /\ lines = PageLines(page_num)
          /\ para_buffer = OpenRun(lines, line_idx - 1)
          /\ Emitted = AcceptedUpTo(page_num - 1) \o Accepted(page_num, Closed(lines, line_idx - 1))
    /\ pc = "page" => Emitted = AcceptedUpTo(page_num)
    /\ pc \in {"detect", "find", "found", "done"} => Emitted = AcceptedUpTo(Len(pdf.pages))

\* C10: a page whose first candidate was closed and rejected, and whose next
\* two lines were joined into one paragraph by the close after the second
C10_Witness ==
    /\ pc = "line"
    /\ line_idx = 4
    /\ ClaimCloses(lines[1]) /\ ~is_valid_paragraph(lines[1])
    /\ ~ClaimCloses(lines[2])
    /\ ClaimCloses(lines[3])
    /\ para_buffer = <<>>
    /\ paragraphs # <<>>
    /\ paragraphs[Len(paragraphs)].text = lines[2] \o <<" ">> \o lines[3]

====
